---- MODULE Spec2Model ----
(***************************************************************************)
(* Model of the two entry points of the repository:                        *)
(*   - travis_lint.js: run ESLint, print the report, post a GitHub status; *)
(*   - the server bootstrap: attach three middlewares, start two servers.  *)
(* JavaScript strings are sequences of one-character strings; a JavaScript *)
(* value is a tagged record, so that undefined, null and "" stay distinct. *)
(***************************************************************************)
EXTENDS Integers, Sequences, FiniteSets, TLC

VARIABLES script, pc, report, idx, console, env, sha, github, app, started, config

vars == <<script, pc, report, idx, console, env, sha, github, app, started, config>>

---------------------------------------------------------------------------
(* Bounds of the model.                                                    *)

\* longest TRAVIS_COMMIT_RANGE value
MaxLen == 7
\* most files in one lint report
MaxFiles == 1

---------------------------------------------------------------------------
(* JavaScript values.                                                      *)

Undefined == [t |-> "undefined", v |-> <<>>]
Null == [t |-> "null", v |-> <<>>]
Str(s) == [t |-> "string", v |-> s]

\* !x for x undefined, null or a string
Not(x) == x.t # "string" \/ x.v = <<>>

\* the string a value turns into under '+' with a string
ToStr(x) ==
  IF x.t = "undefined" THEN <<"u", "n", "d", "e", "f", "i", "n", "e", "d">>
  ELSE IF x.t = "null" THEN <<"n", "u", "l", "l">>
  ELSE x.v

Digit(d) == <<"0", "1", "2", "3", "4", "5", "6", "7", "8", "9">>[d + 1]

RECURSIVE NumStr(_)
\* the decimal string of a non-negative integer under '+' with a string
NumStr(n) == IF n < 10 THEN <<Digit(n)>> ELSE NumStr(n \div 10) \o <<Digit(n % 10)>>

\* s.startsWith(sep) at position i (1-based)
MatchAt(s, sep, i) ==
  /\ i + Len(sep) - 1 <= Len(s)
  /\ \A k \in 1..Len(sep) : s[i + k - 1] = sep[k]

\* positions where sep occurs in s
Occurrences(s, sep) == {i \in 1..Len(s) : MatchAt(s, sep, i)}

Min(S) == CHOOSE m \in S : \A n \in S : m <= n

RECURSIVE Split(_, _)
\* String.prototype.split with a non-empty separator: cut at the leftmost
\* occurrence, then split what follows it
Split(s, sep) ==
  IF Occurrences(s, sep) = {} THEN <<s>>
  ELSE LET i == Min(Occurrences(s, sep))
       IN  <<SubSeq(s, 1, i - 1)>> \o Split(SubSeq(s, i + Len(sep), Len(s)), sep)

\* parsed[i] of a JavaScript array of strings, 0-based; undefined past the end
At(parsed, i) == IF i + 1 <= Len(parsed) THEN Str(parsed[i + 1]) ELSE Undefined

SeqsUpTo(S, n) == UNION {[1..k -> S] : k \in 0..n}

---------------------------------------------------------------------------
(* String literals of the scripts.                                         *)

PUSH == <<"p", "u", "s", "h">>
PULL_REQUEST == <<"p", "u", "l", "l", "_", "r", "e", "q", "u", "e", "s", "t">>
PR == <<"p", "r">>
DOTS == <<".", ".", ".">>
SLASH == <<"/">>
TRAVIS_URL == <<"h", "t", "t", "p", "s", ":", "/", "/", "t", "r", "a", "v", "i", "s", "-", "c", "i", ".", "o", "r", "g", "/">>
JOBS == <<"/", "j", "o", "b", "s", "/">>
ERRORS == <<"e", "r", "r", "o", "r", "s", ":", " ">>
WARNINGS == <<",", " ", "w", "a", "r", "n", "i", "n", "g", "s", ":", " ">>
CI_LINT == <<"c", "i", "/", "l", "i", "n", "t", "/">>
SUCCESS == <<"s", "u", "c", "c", "e", "s", "s">>
FAILURE == <<"f", "a", "i", "l", "u", "r", "e">>

---------------------------------------------------------------------------
(* Inputs: the environment of the CI job and the report of the linter.     *)

\* process.env.X: a string, or undefined when X is not set
SlugValues == {Undefined, Str(<<"u">>), Str(<<"u", "/", "r">>), Str(<<"u", "/", "r", "/", "x">>)}
JobValues == {Undefined, Str(<<"7">>)}
EventValues == {Undefined, Str(PUSH), Str(PULL_REQUEST), Str(<<"c", "r", "o", "n">>)}
CommitValues == {Undefined, Str(<<>>), Str(<<"a">>), Str(<<"a", ".", ".", ".", "b">>)}
RangeValues == {Undefined} \cup {Str(s) : s \in SeqsUpTo({".", "a"}, MaxLen)}
TokenValues == {Undefined, Str(<<"t", "o", "k">>)}

EnvValues(name) ==
  CASE name = "TRAVIS_REPO_SLUG" -> SlugValues
    [] name = "TRAVIS_JOB_ID" -> JobValues
    [] name = "TRAVIS_EVENT_TYPE" -> EventValues
    [] name = "TRAVIS_COMMIT" -> CommitValues
    [] name = "TRAVIS_COMMIT_RANGE" -> RangeValues
    [] name = "TRAVIS_GITHUB_LINT_STATUS_TOKEN" -> TokenValues

\* the environments that give a value (possibly undefined) to each of names
Envs(names) == {e \in [names -> UNION {EnvValues(n) : n \in names}] :
                  \A n \in names : e[n] \in EnvValues(n)}

\* process.env[name], undefined too for a name the environment has not
Getenv(e, name) == IF name \in DOMAIN e THEN e[name] ELSE Undefined

\* one ESLint message of a file
Message(severity) == [severity |-> severity, line |-> 3,
                      message |-> "Missing semicolon.", ruleId |-> "semi"]

\* the message lists a linted file can have: none, one error, one warning, both
FileMessages == {<<>>, <<Message(2)>>, <<Message(1)>>, <<Message(2), Message(1)>>}

CountSeverity(messages, sev) == Cardinality({i \in 1..Len(messages) : messages[i].severity = sev})

\* ESLint's result for one file: the counts are those of its messages
FileResult(messages) ==
  [filePath |-> "test/a.js", messages |-> messages,
   errorCount |-> CountSeverity(messages, 2),
   warningCount |-> CountSeverity(messages, 1)]

RECURSIVE SumErrors(_)
SumErrors(results) ==
  IF results = <<>> THEN 0 ELSE results[1].errorCount + SumErrors(Tail(results))

RECURSIVE SumWarnings(_)
SumWarnings(results) ==
  IF results = <<>> THEN 0 ELSE results[1].warningCount + SumWarnings(Tail(results))

\* ESLint's report: its counts are the sums over the files
Report(results) ==
  [results |-> results, errorCount |-> SumErrors(results),
   warningCount |-> SumWarnings(results)]

Reports == {Report(rs) : rs \in SeqsUpTo({FileResult(m) : m \in FileMessages}, MaxFiles)}

NoReport == Report(<<>>)

\* config.serverInfo of the server
ServerInfos == {[https |-> 443, http |-> 80], [https |-> 8443, http |-> 8080]}

\* travis_lint.js requires no config module
NoConfig == [https |-> 0, http |-> 0]

---------------------------------------------------------------------------
(* travis_lint.js                                                          *)

\* one console.log
Log(style, text, args) == [style |-> style, text |-> text, args |-> args]

printMessage(message) ==
  IF message.severity = 2
  THEN Log("red", "error  ", <<message.line, message.message, message.ruleId>>)
  ELSE Log("yellow", "warning", <<message.line, message.message, message.ruleId>>)

\* the lines printFileResult prints for one file
printFileResult(result) ==
  <<Log("underline", result.filePath, <<>>)>>
  \o (IF Len(result.messages) = 0
      THEN <<Log("", "no issues", <<>>)>>
      ELSE [i \in 1..Len(result.messages) |-> printMessage(result.messages[i])])
  \o <<Log("", "", <<>>)>>

\* printReportFooter testing the warning count before the error count
printReportFooter_warningsFirst(rep) ==
  IF rep.warningCount # 0
  THEN Log("yellow.bold", "%d warnings", <<rep.warningCount>>)
  ELSE IF rep.errorCount # 0
  THEN Log("red.bold", "%d problems (%d errors, %d warnings)",
           <<rep.errorCount + rep.warningCount, rep.errorCount, rep.warningCount>>)
  ELSE Log("green.bold", "no lint issues!", <<>>)

\* the line printReportFooter prints
printReportFooter(rep) ==
  IF rep.errorCount # 0
  THEN Log("red.bold", "%d problems (%d errors, %d warnings)",
           <<rep.errorCount + rep.warningCount, rep.errorCount, rep.warningCount>>)
  ELSE IF rep.warningCount # 0
  THEN Log("yellow.bold", "%d warnings", <<rep.warningCount>>)
  ELSE Log("green.bold", "no lint issues!", <<>>)

\* the variables of process.env getCommitTarget reads for an event type
CommitEnvNames(eventType) ==
  IF eventType = Str(PUSH) THEN {"TRAVIS_COMMIT"}
  ELSE IF eventType = Str(PULL_REQUEST) THEN {"TRAVIS_COMMIT_RANGE"}
  ELSE {}

\* getCommitTarget taking the last segment of the range, not the second
getCommitTarget_lastSegment(eventType, e) ==
  IF eventType = Str(PUSH)
  THEN [threw |-> FALSE, sha |-> Getenv(e, "TRAVIS_COMMIT"), out |-> <<>>]
  ELSE IF eventType = Str(PULL_REQUEST)
  THEN LET travisCommitRange == Getenv(e, "TRAVIS_COMMIT_RANGE")
       IN  IF travisCommitRange.t # "string"
           THEN [threw |-> TRUE, sha |-> Undefined, out |-> <<>>]
           ELSE LET parsed == Split(travisCommitRange.v, DOTS)
                IN  IF Len(parsed) = 1
                    THEN [threw |-> FALSE, sha |-> travisCommitRange, out |-> <<>>]
                    ELSE [threw |-> FALSE, sha |-> At(parsed, Len(parsed) - 1), out |-> <<>>]
  ELSE [threw |-> FALSE, sha |-> Null,
        out |-> <<Log("red", "event type '%s' not supported", <<eventType>>)>>]

\* getCommitTarget parsing TRAVIS_COMMIT as if it were a range
getCommitTarget_parsesCommit(eventType, e) ==
  IF eventType = Str(PUSH)
  THEN LET travisCommit == Getenv(e, "TRAVIS_COMMIT")
       IN  IF travisCommit.t # "string"
           THEN [threw |-> TRUE, sha |-> Undefined, out |-> <<>>]
           ELSE LET parsed == Split(travisCommit.v, DOTS)
                IN  IF Len(parsed) = 1
                    THEN [threw |-> FALSE, sha |-> travisCommit, out |-> <<>>]
                    ELSE [threw |-> FALSE, sha |-> At(parsed, 1), out |-> <<>>]
  ELSE IF eventType = Str(PULL_REQUEST)
  THEN LET travisCommitRange == Getenv(e, "TRAVIS_COMMIT_RANGE")
       IN  IF travisCommitRange.t # "string"
           THEN [threw |-> TRUE, sha |-> Undefined, out |-> <<>>]
           ELSE LET parsed == Split(travisCommitRange.v, DOTS)
                IN  IF Len(parsed) = 1
                    THEN [threw |-> FALSE, sha |-> travisCommitRange, out |-> <<>>]
                    ELSE [threw |-> FALSE, sha |-> At(parsed, 1), out |-> <<>>]
  ELSE [threw |-> FALSE, sha |-> Null,
        out |-> <<Log("red", "event type '%s' not supported", <<eventType>>)>>]

\* getCommitTarget under environment e: the value returned, the lines logged,
\* and whether it threw instead (split of undefined)
getCommitTarget(eventType, e) ==
  IF eventType = Str(PUSH)
  THEN [threw |-> FALSE, sha |-> Getenv(e, "TRAVIS_COMMIT"), out |-> <<>>]
  ELSE IF eventType = Str(PULL_REQUEST)
  THEN LET travisCommitRange == Getenv(e, "TRAVIS_COMMIT_RANGE")
       IN  IF travisCommitRange.t # "string"
           THEN [threw |-> TRUE, sha |-> Undefined, out |-> <<>>]
           ELSE LET parsed == Split(travisCommitRange.v, DOTS)
                IN  IF Len(parsed) = 1
                    THEN [threw |-> FALSE, sha |-> travisCommitRange, out |-> <<>>]
                    ELSE [threw |-> FALSE, sha |-> At(parsed, 1), out |-> <<>>]
  ELSE [threw |-> FALSE, sha |-> Null,
        out |-> <<Log("red", "event type '%s' not supported", <<eventType>>)>>]

\* if (sha === undefined)
SkipPost_undefinedOnly(s) == s = Undefined

\* if (sha === null)
SkipPost_nullOnly(s) == s = Null

\* if (!sha): the status is not posted
SkipPost(s) == Not(s)

\* the details with a state that counts the warnings as failures
Details_stateCountsWarnings(travisSlug, travisJob, travisEvent, s, rep) ==
  LET parsedSlug == Split(travisSlug.v, SLASH)
      type == IF travisEvent = Str(PULL_REQUEST) THEN PR ELSE ToStr(travisEvent)
  IN  [user |-> At(parsedSlug, 0),
       repo |-> At(parsedSlug, 1),
       sha |-> s,
       state |-> IF rep.errorCount + rep.warningCount = 0 THEN SUCCESS ELSE FAILURE,
       target_url |-> TRAVIS_URL \o travisSlug.v \o JOBS \o ToStr(travisJob),
       description |-> ERRORS \o NumStr(rep.errorCount) \o WARNINGS \o NumStr(rep.warningCount),
       context |-> CI_LINT \o type]

\* the details with the event type put in the context as it is
Details_rawEventType(travisSlug, travisJob, travisEvent, s, rep) ==
  LET parsedSlug == Split(travisSlug.v, SLASH)
      type == ToStr(travisEvent)
  IN  [user |-> At(parsedSlug, 0),
       repo |-> At(parsedSlug, 1),
       sha |-> s,
       state |-> IF rep.errorCount = 0 THEN SUCCESS ELSE FAILURE,
       target_url |-> TRAVIS_URL \o travisSlug.v \o JOBS \o ToStr(travisJob),
       description |-> ERRORS \o NumStr(rep.errorCount) \o WARNINGS \o NumStr(rep.warningCount),
       context |-> CI_LINT \o type]

\* the details updateStatus builds from a slug that is a string
Details(travisSlug, travisJob, travisEvent, s, rep) ==
  LET parsedSlug == Split(travisSlug.v, SLASH)
      type == IF travisEvent = Str(PULL_REQUEST) THEN PR ELSE ToStr(travisEvent)
  IN  [user |-> At(parsedSlug, 0),
       repo |-> At(parsedSlug, 1),
       sha |-> s,
       state |-> IF rep.errorCount = 0 THEN SUCCESS ELSE FAILURE,
       target_url |-> TRAVIS_URL \o travisSlug.v \o JOBS \o ToStr(travisJob),
       description |-> ERRORS \o NumStr(rep.errorCount) \o WARNINGS \o NumStr(rep.warningCount),
       context |-> CI_LINT \o type]

\* sendToGitHub calling createStatus a second time
sendToGitHub_twice(gh, details, token) ==
  [auth |-> Append(gh.auth, [type |-> "oauth", token |-> token]),
   createStatus |-> gh.createStatus \o <<details, details>>]

\* sendToGitHub: authenticate a new client with the token, then createStatus
sendToGitHub(gh, details, token) ==
  [auth |-> Append(gh.auth, [type |-> "oauth", token |-> token]),
   createStatus |-> Append(gh.createStatus, details)]

\* the script calling updateStatus right after processFiles
ProcessFiles_statusFirst ==
  /\ script = "travis_lint" /\ pc = "processFiles"
  /\ \E r \in Reports : report' = r
  /\ pc' = "updateStatus"
  /\ UNCHANGED <<script, idx, console, env, sha, github, app, started, config>>

\* line 10: var report = processFiles('./test')
ProcessFiles ==
  /\ script = "travis_lint" /\ pc = "processFiles"
  /\ \E r \in Reports : report' = r
  /\ pc' = "printReport"
  /\ UNCHANGED <<script, idx, console, env, sha, github, app, started, config>>

\* printReport: the opening line
PrintReportBegin ==
  /\ script = "travis_lint" /\ pc = "printReport"
  /\ console' = Append(console, Log("bold", "-- begin ESLint report --\n", <<>>))
  /\ idx' = 1
  /\ pc' = "printResults"
  /\ UNCHANGED <<script, report, env, sha, github, app, started, config>>

\* printReport: one turn of the loop over report.results
PrintReportResult ==
  /\ script = "travis_lint" /\ pc = "printResults"
  /\ idx <= Len(report.results)
  /\ LET result == report.results[idx]
     IN  console' = IF result.errorCount # 0 \/ result.warningCount # 0
                    THEN console \o printFileResult(result)
                    ELSE console
  /\ idx' = idx + 1
  /\ UNCHANGED <<script, pc, report, env, sha, github, app, started, config>>

\* printReport: the footer, after the loop
PrintReportEnd ==
  /\ script = "travis_lint" /\ pc = "printResults"
  /\ idx > Len(report.results)
  /\ console' = Append(console, printReportFooter(report))
  /\ pc' = "updateStatus"
  /\ UNCHANGED <<script, report, idx, env, sha, github, app, started, config>>

\* updateStatus: read the three travis variables
UpdateStatusEnv ==
  /\ script = "travis_lint" /\ pc = "updateStatus"
  /\ \E e \in Envs({"TRAVIS_REPO_SLUG", "TRAVIS_JOB_ID", "TRAVIS_EVENT_TYPE"}) : env' = e @@ env
  /\ pc' = "getCommitTarget"
  /\ UNCHANGED <<script, report, idx, console, sha, github, app, started, config>>

\* updateStatus: var sha = getCommitTarget(travisEvent)
UpdateStatusCommitTarget ==
  /\ script = "travis_lint" /\ pc = "getCommitTarget"
  /\ \E e \in Envs(CommitEnvNames(env["TRAVIS_EVENT_TYPE"])) :
       LET r == getCommitTarget(env["TRAVIS_EVENT_TYPE"], e @@ env)
       IN  /\ env' = e @@ env
           /\ console' = console \o r.out
           /\ sha' = r.sha
           /\ pc' = IF r.threw THEN "crashed" ELSE "checkSha"
  /\ UNCHANGED <<script, report, idx, github, app, started, config>>

\* updateStatus: the branch that does not post
UpdateStatusSkip ==
  /\ script = "travis_lint" /\ pc = "checkSha"
  /\ SkipPost(sha)
  /\ console' = Append(console, Log("red", "not POSTing to GitHub", <<>>))
  /\ pc' = "done"
  /\ UNCHANGED <<script, report, idx, env, sha, github, app, started, config>>

\* updateStatus: the branch that builds the details and calls sendToGitHub;
\* travisSlug.split throws when the slug is undefined
UpdateStatusPost ==
  /\ script = "travis_lint" /\ pc = "checkSha"
  /\ ~SkipPost(sha)
  /\ IF env["TRAVIS_REPO_SLUG"].t # "string"
     THEN /\ pc' = "crashed"
          /\ UNCHANGED <<env, github>>
     ELSE \E e \in Envs({"TRAVIS_GITHUB_LINT_STATUS_TOKEN"}) :
            /\ env' = e @@ env
            /\ github' = sendToGitHub(github,
                           Details(env["TRAVIS_REPO_SLUG"], env["TRAVIS_JOB_ID"],
                                   env["TRAVIS_EVENT_TYPE"], sha, report),
                           e["TRAVIS_GITHUB_LINT_STATUS_TOKEN"])
            /\ pc' = "done"
  /\ UNCHANGED <<script, report, idx, console, sha, app, started, config>>

---------------------------------------------------------------------------
(* The server bootstrap.                                                   *)

\* app.use(middleware)
use(stack, middleware) == Append(stack, middleware)

\* const app = express()
CreateApp ==
  /\ script = "server" /\ pc = "express"
  /\ app' = <<>>
  /\ pc' = "useStatic"
  /\ UNCHANGED <<script, report, idx, console, env, sha, github, started, config>>

\* app.use(express.static(path.join(__dirname, '../client')))
UseStatic ==
  /\ script = "server" /\ pc = "useStatic"
  /\ app' = use(app, [name |-> "express.static", limit |-> "", extended |-> FALSE])
  /\ pc' = "useJson"
  /\ UNCHANGED <<script, report, idx, console, env, sha, github, started, config>>

\* the bootstrap without the urlencoded parser
UseJson_skipsUrlencoded ==
  /\ script = "server" /\ pc = "useJson"
  /\ app' = use(app, [name |-> "bodyParser.json", limit |-> "10mb", extended |-> FALSE])
  /\ pc' = "httpsServer.run"
  /\ UNCHANGED <<script, report, idx, console, env, sha, github, started, config>>

\* app.use(bodyParser.json({limit: '10mb'}))
UseJson ==
  /\ script = "server" /\ pc = "useJson"
  /\ app' = use(app, [name |-> "bodyParser.json", limit |-> "10mb", extended |-> FALSE])
  /\ pc' = "useUrlencoded"
  /\ UNCHANGED <<script, report, idx, console, env, sha, github, started, config>>

\* app.use(bodyParser.urlencoded({limit: '10mb', extended: true}))
UseUrlencoded ==
  /\ script = "server" /\ pc = "useUrlencoded"
  /\ app' = use(app, [name |-> "bodyParser.urlencoded", limit |-> "10mb", extended |-> TRUE])
  /\ pc' = "httpsServer.run"
  /\ UNCHANGED <<script, report, idx, console, env, sha, github, started, config>>

\* httpsServer.run(app, config.serverInfo)
HttpsServerRun ==
  /\ script = "server" /\ pc = "httpsServer.run"
  /\ started' = Append(started, [fn |-> "httpsServer.run", app |-> app, serverInfo |-> config])
  /\ pc' = "redirectServer.runForHttps"
  /\ UNCHANGED <<script, report, idx, console, env, sha, github, app, config>>

\* redirectServer.runForHttps(config.serverInfo)
RedirectServerRun ==
  /\ script = "server" /\ pc = "redirectServer.runForHttps"
  /\ started' = Append(started, [fn |-> "redirectServer.runForHttps", app |-> <<>>, serverInfo |-> config])
  /\ pc' = "done"
  /\ UNCHANGED <<script, report, idx, console, env, sha, github, app, config>>

---------------------------------------------------------------------------

Init ==
  /\ script \in {"travis_lint", "server"}
  /\ pc = IF script = "travis_lint" THEN "processFiles" ELSE "express"
  /\ report = NoReport
  /\ idx = 0
  /\ console = <<>>
  /\ env = <<>>
  /\ sha = Undefined
  /\ github = [auth |-> <<>>, createStatus |-> <<>>]
  /\ app = <<>>
  /\ started = <<>>
  /\ config \in IF script = "server" THEN ServerInfos ELSE {NoConfig}

Next ==
  \/ ProcessFiles
  \/ PrintReportBegin
  \/ PrintReportResult
  \/ PrintReportEnd
  \/ UpdateStatusEnv
  \/ UpdateStatusCommitTarget
  \/ UpdateStatusSkip
  \/ UpdateStatusPost
  \/ CreateApp
  \/ UseStatic
  \/ UseJson
  \/ UseUrlencoded
  \/ HttpsServerRun
  \/ RedirectServerRun

Spec == Init /\ [][Next]_vars

---------------------------------------------------------------------------
(* Properties of travis_lint.js and of the server bootstrap.               *)

Lint == script = "travis_lint"

\* the run has read TRAVIS_EVENT_TYPE
EventRead == "TRAVIS_EVENT_TYPE" \in DOMAIN env

Event == env["TRAVIS_EVENT_TYPE"]

IsPush == EventRead /\ Event = Str(<<"p", "u", "s", "h">>)

IsPullRequest == EventRead /\ Event = Str(<<"p", "u", "l", "l", "_", "r", "e", "q", "u", "e", "s", "t">>)

\* github.repos.createStatus has been called
Sent == Len(github.createStatus) > 0

Status == github.createStatus[1]

\* the 'not POSTing to GitHub' line has been logged
Skipped == \E i \in 1..Len(console) : console[i].text = "not POSTing to GitHub"

FooterTexts == {"no lint issues!", "%d warnings", "%d problems (%d errors, %d warnings)"}

\* the positions of the footer lines on the console
FooterLines == {i \in 1..Len(console) : console[i].text \in FooterTexts}

\* everything after the first '...' of s, which contains one
AfterFirst(s) == SubSeq(s, Min(Occurrences(s, <<".", ".", ".">>)) + 3, Len(s))

\* the last position of S
Max(S) == CHOOSE m \in S : \A n \in S : n <= m

\* everything after the last '...' of s, which contains one
AfterLast(s) == SubSeq(s, Max(Occurrences(s, <<".", ".", ".">>)) + 3, Len(s))

\* s up to its first '...', all of s when it has none
UpToDelimiter(s) ==
  IF Occurrences(s, <<".", ".", ".">>) = {} THEN s
  ELSE SubSeq(s, 1, Min(Occurrences(s, <<".", ".", ".">>)) - 1)

\* the text between the first '...' of s and the next one (or the end of s)
SecondSegment(s) == UpToDelimiter(AfterFirst(s))

HasDelimiter(s) == Occurrences(s, <<".", ".", ".">>) # {}

\* s up to its first '/', all of s when it has none
UpToSlash(s) ==
  IF Occurrences(s, <<"/">>) = {} THEN s
  ELSE SubSeq(s, 1, Min(Occurrences(s, <<"/">>)) - 1)

AfterSlash(s) == SubSeq(s, Min(Occurrences(s, <<"/">>)) + 1, Len(s))

\* C1: once the event type read is neither 'push' nor 'pull_request' (unset
\* included), getCommitTarget returns null, the run does not fail, and neither
\* authenticate nor createStatus is ever called, whatever the report holds.
C1_UnsupportedEventNoCall ==
  (Lint /\ EventRead /\ ~IsPush /\ ~IsPullRequest) =>
     /\ github.createStatus = <<>>
     /\ github.auth = <<>>
     /\ pc # "crashed"
     /\ (pc \in {"checkSha", "done"} => sha = Null)

C1_Witness ==
  /\ Lint /\ pc = "done" /\ EventRead /\ Event = Undefined
  /\ report.errorCount > 0
  /\ Skipped /\ ~Sent

\* C2 as stated: for a pull_request event the sha of the status sent is
\* everything after the '...' delimiter (the first or the last one) when
\* the range contains one, and the whole range otherwise.
C2_ShaAfterDelimiter ==
  (Lint /\ Sent /\ IsPullRequest) =>
     LET range == env["TRAVIS_COMMIT_RANGE"].v
     IN  IF HasDelimiter(range)
         THEN Status.sha = Str(AfterFirst(range)) \/ Status.sha = Str(AfterLast(range))
         ELSE Status.sha = Str(range)

\* C2 amended: for a pull_request event the sha of the status sent is the
\* second '...'-separated segment of the range (the text between the first
\* delimiter and the next delimiter or the end) when the range contains a
\* delimiter, and the whole range otherwise; when that text is empty the
\* run ends without sending a status.
C2_ShaSecondSegment ==
  (Lint /\ IsPullRequest /\ pc \in {"checkSha", "done"}) =>
     LET range == env["TRAVIS_COMMIT_RANGE"].v
         target == IF HasDelimiter(range) THEN SecondSegment(range) ELSE range
     IN  /\ Sent => Status.sha = Str(target)
         /\ target = <<>> => ~Sent
         /\ (pc = "done" /\ target = <<>>) => Skipped

C2_Witness ==
  /\ Lint /\ Sent /\ IsPullRequest
  /\ Cardinality(Occurrences(env["TRAVIS_COMMIT_RANGE"].v, <<".", ".", ".">>)) >= 2
  /\ Status.sha = Str(<<"a">>)

\* C3: for a push event the sha of the status passed to createStatus is
\* exactly the value of TRAVIS_COMMIT.
C3_PushShaIsCommit ==
  (Lint /\ Sent /\ IsPush) =>
     /\ env["TRAVIS_COMMIT"].t = "string"
     /\ Status.sha = env["TRAVIS_COMMIT"]
     /\ "TRAVIS_COMMIT_RANGE" \notin DOMAIN env

C3_Witness ==
  /\ Lint /\ Sent /\ IsPush
  /\ env["TRAVIS_COMMIT"] = Str(<<"a", ".", ".", ".", "b">>)
  /\ Status.sha = Str(<<"a", ".", ".", ".", "b">>)

\* C4: whenever a status is sent its state is 'success' if and only if
\* report.errorCount is 0 and 'failure' otherwise, whatever the warning count.
C4_StateFromErrorCount ==
  (Lint /\ Sent) =>
     /\ Status.state = <<"s", "u", "c", "c", "e", "s", "s">> <=> report.errorCount = 0
     /\ Status.state = <<"f", "a", "i", "l", "u", "r", "e">> <=> report.errorCount # 0

C4_Witness ==
  /\ Lint /\ Sent
  /\ report.errorCount = 0 /\ report.warningCount > 0
  /\ Status.state = <<"s", "u", "c", "c", "e", "s", "s">>

\* C5: no footer line is printed before the loop over the files ends, and from
\* then on the console holds exactly one footer line: 'no lint issues!' exactly
\* for (0,0), '%d warnings' exactly for (0,>0), and '%d problems (%d errors,
\* %d warnings)' exactly for (>0, any), with problems = errors + warnings.
C5_FooterSelection ==
  Lint =>
    IF pc \in {"processFiles", "printReport", "printResults"}
    THEN FooterLines = {}
    ELSE /\ Cardinality(FooterLines) = 1
         /\ LET f == console[CHOOSE i \in FooterLines : TRUE]
                e == report.errorCount
                w == report.warningCount
            IN  /\ f.text = "no lint issues!" <=> (e = 0 /\ w = 0)
                /\ f.text = "%d warnings" <=> (e = 0 /\ w > 0)
                /\ f.text = "%d problems (%d errors, %d warnings)" <=> e > 0
                /\ f.text = "no lint issues!" => f.args = <<>>
                /\ f.text = "%d warnings" => f.args = <<w>>
                /\ f.text = "%d problems (%d errors, %d warnings)" => f.args = <<e + w, e, w>>

C5_Witness ==
  /\ Lint /\ pc = "updateStatus"
  /\ report.errorCount > 0 /\ report.warningCount > 0
  /\ console[Len(console)].text = "%d problems (%d errors, %d warnings)"

\* C6: in a run createStatus is called at most once, with a payload built
\* once, and the client is authenticated at most once.
C6_AtMostOneStatus ==
  Lint => /\ Len(github.createStatus) <= 1
          /\ Len(github.auth) <= 1
          /\ Len(github.auth) = Len(github.createStatus)

C6_Witness ==
  Lint /\ pc = "done" /\ Len(github.createStatus) = 1

\* C7 as stated: a finished run has skipped the status call, with only the log
\* line, if and only if the event type is neither 'push' nor 'pull_request'.
C7_SkipOnlyUnsupported ==
  (Lint /\ pc = "done") => (Skipped <=> (~IsPush /\ ~IsPullRequest))

\* C7 amended: a finished run has skipped the status call if and only if the
\* sha getCommitTarget gave is falsy: the event type is neither 'push' nor
\* 'pull_request', or it is 'push' and TRAVIS_COMMIT is unset or empty, or it
\* is 'pull_request' and TRAVIS_COMMIT_RANGE is empty or has an empty second
\* segment; a run that neither skips nor fails sends the status; a run fails
\* only for 'pull_request' with TRAVIS_COMMIT_RANGE unset, or for a truthy sha
\* with TRAVIS_REPO_SLUG unset.
C7_SkipIffFalsySha ==
  (Lint /\ pc \in {"done", "crashed"}) =>
     LET commit == env["TRAVIS_COMMIT"]
         range == env["TRAVIS_COMMIT_RANGE"]
         falsy == \/ ~IsPush /\ ~IsPullRequest
                  \/ IsPush /\ (commit = Undefined \/ commit = Str(<<>>))
                  \/ /\ IsPullRequest /\ range # Undefined
                     /\ \/ range = Str(<<>>)
                        \/ HasDelimiter(range.v) /\ SecondSegment(range.v) = <<>>
         noRange == IsPullRequest /\ range = Undefined
         noSlug == env["TRAVIS_REPO_SLUG"] = Undefined
     IN  /\ Skipped <=> (pc = "done" /\ falsy)
         /\ Sent <=> (pc = "done" /\ ~falsy)
         /\ pc = "crashed" <=> (noRange \/ (~falsy /\ noSlug))

C7_Witness ==
  /\ Lint /\ pc = "done" /\ IsPush
  /\ env["TRAVIS_COMMIT"] = Undefined
  /\ Skipped /\ ~Sent

\* what C8 asks of every state: nothing is printed before the lint run has
\* returned; the status call, the 'not POSTing' line and the 'not supported'
\* line come only after the footer, the last line of the report; and the
\* status describes the report that was printed.
C8_OrderInState ==
  Lint =>
    /\ pc = "processFiles" => console = <<>>
    /\ (Sent \/ EventRead \/ \E i \in 1..Len(console) :
                               console[i].text \in {"not POSTing to GitHub",
                                                    "event type '%s' not supported"})
         => /\ FooterLines # {}
            /\ \A i \in 1..Len(console) :
                 console[i].text \in {"not POSTing to GitHub", "event type '%s' not supported"}
                   => \A j \in FooterLines : j < i
            /\ \A i \in 1..Len(console) :
                 console[i].text = "-- begin ESLint report --\n"
                   => \A j \in FooterLines : i < j
    /\ Sent => /\ Status.description =
                    <<"e", "r", "r", "o", "r", "s", ":", " ">> \o NumStr(report.errorCount)
                    \o <<",", " ", "w", "a", "r", "n", "i", "n", "g", "s", ":", " ">>
                    \o NumStr(report.warningCount)
               /\ console[CHOOSE j \in FooterLines : TRUE].text = "no lint issues!"
                    <=> (report.errorCount = 0 /\ report.warningCount = 0)

\* what C8 asks of every step: once the lint run has returned the report never
\* changes, what was printed stays printed, and no report line (header, file
\* line, footer) is printed once the footer is out.
C8_OrderInStep ==
  Lint =>
    /\ pc # "processFiles" => report' = report
    /\ Len(console') >= Len(console)
    /\ SubSeq(console', 1, Len(console)) = console
    /\ FooterLines # {} =>
         \A i \in (Len(console) + 1)..Len(console') :
           console'[i].text \in {"not POSTing to GitHub", "event type '%s' not supported"}

\* C8: the script runs lint, then prints the whole report, then sends the
\* status (or logs that it does not), and uses one report value throughout.
C8_LintPrintStatusOrder == [](C8_OrderInState) /\ [][C8_OrderInStep]_vars

C8_Witness ==
  /\ Lint /\ pc = "done" /\ Sent
  /\ Len(console) > 2
  /\ report.errorCount > 0

\* C9: the bootstrap attaches express.static, bodyParser.json and
\* bodyParser.urlencoded in that order, each once, then calls httpsServer.run
\* with the app carrying all three and config.serverInfo, then
\* redirectServer.runForHttps with the same config.serverInfo, each once.
C9_BootstrapOrder ==
  script = "server" =>
    LET names == <<"express.static", "bodyParser.json", "bodyParser.urlencoded">>
        calls == <<"httpsServer.run", "redirectServer.runForHttps">>
    IN  /\ Len(app) <= 3
        /\ \A i \in 1..Len(app) : app[i].name = names[i]
        /\ Len(started) <= 2
        /\ \A i \in 1..Len(started) :
             /\ started[i].fn = calls[i]
             /\ started[i].serverInfo = config
        /\ started # <<>> => (Len(app) = 3 /\ started[1].app = app)
        /\ pc = "done" => (Len(app) = 3 /\ Len(started) = 2)

C9_Witness ==
  /\ script = "server" /\ pc = "done"
  /\ Len(started) = 2 /\ Len(app) = 3

\* C10: a status is sent only for a push or a pull_request event; its context
\* is 'ci/lint/pr' for pull_request and 'ci/lint/push' for push, its
\* description is 'errors: <errorCount>, warnings: <warningCount>', and its
\* user and repo are the first and the second '/'-separated segment of
\* TRAVIS_REPO_SLUG (repo is undefined when the slug has no '/').
C10_StatusFields ==
  (Lint /\ Sent) =>
     LET slug == env["TRAVIS_REPO_SLUG"].v
     IN  /\ IsPush \/ IsPullRequest
         /\ IsPullRequest => Status.context = <<"c", "i", "/", "l", "i", "n", "t", "/", "p", "r">>
         /\ IsPush => Status.context = <<"c", "i", "/", "l", "i", "n", "t", "/", "p", "u", "s", "h">>
         /\ Status.description =
              <<"e", "r", "r", "o", "r", "s", ":", " ">> \o NumStr(report.errorCount)
              \o <<",", " ", "w", "a", "r", "n", "i", "n", "g", "s", ":", " ">>
              \o NumStr(report.warningCount)
         /\ Status.user = Str(UpToSlash(slug))
         /\ Status.repo = IF Occurrences(slug, <<"/">>) = {} THEN Undefined
                          ELSE Str(UpToSlash(AfterSlash(slug)))

C10_Witness ==
  /\ Lint /\ Sent /\ IsPullRequest
  /\ env["TRAVIS_REPO_SLUG"] = Str(<<"u", "/", "r", "/", "x">>)
  /\ Status.repo = Str(<<"r">>)
  /\ report.errorCount > 0 /\ report.warningCount > 0

====
